---- MODULE Spec2Model ----
(***************************************************************************)
(* State machine of the SnakeGame widget of src/snake_game.py: the game    *)
(* state (snake, food, direction, score, game_over, paused) and the four   *)
(* handlers that mutate it: game_loop (the timer tick), change_direction,  *)
(* toggle_pause and reset_game (driven by the SnakeApp actions).          *)
(*                                                                         *)
(* The grid dimensions are the class attributes WIDTH and HEIGHT.  They    *)
(* are fixed for one instance, so they are variables that no action        *)
(* changes; Init draws them from a family of small grids (30 x 20 in the   *)
(* source) so that walls, self collisions and a completely filled grid     *)
(* are all within reach of an exhaustive search.                           *)
(*                                                                         *)
(* op, arg and prev are history variables: the handler that ran last, its  *)
(* argument, and the game state it started from.  They let a statement     *)
(* about "the state after handler h called in state s" be written as a     *)
(* state predicate.                                                        *)
(***************************************************************************)
EXTENDS Integers, Sequences, FiniteSets

VARIABLES
    WIDTH, HEIGHT,  \* game settings (class attributes, lines 42-43)
    snake,          \* list of cells <<x, y>>, head first (line 34)
    food,           \* the food cell (line 35)
    direction,      \* a Direction (line 36)
    score,          \* line 37
    game_over,      \* line 38
    paused,         \* line 39
    pc,             \* "idle" between handlers, "place_food" inside its loop
    op, arg, prev   \* history: last handler, its argument, its start state

vars == <<WIDTH, HEIGHT, snake, food, direction, score, game_over, paused,
          pc, op, arg, prev>>

\* Grids explored: every WIDTH x HEIGHT grid of at most MaxCells cells in
\* which the start snake fits (WIDTH >= 4, since its tail is at WIDTH/2 - 2).
MaxCells == 8

\* class Direction(Enum)
Direction == {"UP", "DOWN", "LEFT", "RIGHT"}

\* The opposites dictionary of change_direction.
Opposites(d) ==
    CASE d = "UP" -> "DOWN"
      [] d = "DOWN" -> "UP"
      [] d = "LEFT" -> "RIGHT"
      [] d = "RIGHT" -> "LEFT"

\* Every cell of the grid: the range of the two random.randint calls.
Cells == (0 .. WIDTH - 1) \X (0 .. HEIGHT - 1)

\* Python's "cell in list".
InSnake(c, s) == \E i \in DOMAIN s : s[i] = c

\* The game state a handler reads and writes.
Snapshot ==
    [snake |-> snake, food |-> food, direction |-> direction,
     score |-> score, game_over |-> game_over, paused |-> paused]

\* The cells place_food's loop can exit with: sampled in the grid, not in s.
FreeCells_unchecked(s) == Cells
FreeCells(s) == {c \in Cells : ~InSnake(c, s)}

\* place_food with the snake s: rejection sampling ends on some free cell;
\* with no free cell the loop never exits and the handler never returns.
place_food(s) ==
    IF FreeCells(s) # {}
    THEN food' \in FreeCells(s) /\ pc' = "idle"
    ELSE food' = food /\ pc' = "place_food"

\* Start snake of reset_game: three cells in the middle row, head rightmost.
StartSnake(w, h) ==
    LET start_x == w \div 2
        start_y == h \div 2
    IN  <<<<start_x, start_y>>, <<start_x - 1, start_y>>, <<start_x - 2, start_y>>>>

\* SnakeGame.__init__: reset_game() on a fresh instance.
Init ==
    /\ WIDTH \in 4 .. MaxCells
    /\ HEIGHT \in 1 .. MaxCells
    /\ WIDTH * HEIGHT <= MaxCells
    /\ snake = StartSnake(WIDTH, HEIGHT)
    /\ direction = "RIGHT"
    /\ score = 0
    /\ game_over = FALSE
    /\ paused = FALSE
    /\ food \in {c \in (0 .. WIDTH - 1) \X (0 .. HEIGHT - 1) :
                    ~InSnake(c, StartSnake(WIDTH, HEIGHT))}
    /\ pc = "idle"
    /\ op = "__init__"
    /\ arg = "NONE"
    /\ prev = [snake |-> snake, food |-> food, direction |-> direction,
               score |-> score, game_over |-> game_over, paused |-> paused]

\* reset_game, as called by action_restart.
reset_game_keeps_pause ==
    /\ pc = "idle"
    /\ snake' = StartSnake(WIDTH, HEIGHT)
    /\ direction' = "RIGHT"
    /\ score' = 0
    /\ game_over' = FALSE
    /\ UNCHANGED paused
    /\ place_food(StartSnake(WIDTH, HEIGHT))
    /\ op' = "reset_game" /\ arg' = "NONE" /\ prev' = Snapshot
    /\ UNCHANGED <<WIDTH, HEIGHT>>
reset_game ==
    /\ pc = "idle"
    /\ snake' = StartSnake(WIDTH, HEIGHT)
    /\ direction' = "RIGHT"
    /\ score' = 0
    /\ game_over' = FALSE
    /\ paused' = FALSE
    /\ place_food(StartSnake(WIDTH, HEIGHT))
    /\ op' = "reset_game" /\ arg' = "NONE" /\ prev' = Snapshot
    /\ UNCHANGED <<WIDTH, HEIGHT>>

\* New head of game_loop: the head moved one unit in direction d.
NewHead_swapped(head, d) ==
    CASE d = "UP" -> <<head[1], head[2] - 1>>
      [] d = "DOWN" -> <<head[1], head[2] + 1>>
      [] d = "LEFT" -> <<head[1] + 1, head[2]>>
      [] OTHER -> <<head[1] - 1, head[2]>>
NewHead(head, d) ==
    CASE d = "UP" -> <<head[1], head[2] - 1>>
      [] d = "DOWN" -> <<head[1], head[2] + 1>>
      [] d = "LEFT" -> <<head[1] - 1, head[2]>>
      [] OTHER -> <<head[1] + 1, head[2]>>

\* Wall test of game_loop.
WallCollision_open(c) == FALSE
WallCollision_off_by_one(c) ==
    c[1] < 0 \/ c[1] > WIDTH \/ c[2] < 0 \/ c[2] > HEIGHT
WallCollision(c) ==
    c[1] < 0 \/ c[1] >= WIDTH \/ c[2] < 0 \/ c[2] >= HEIGHT

\* Self test of game_loop: against the whole pre-move snake.
SelfCollision_none(c) == FALSE
SelfCollision_skip_tail(c) == InSnake(c, SubSeq(snake, 1, Len(snake) - 1))
SelfCollision(c) == InSnake(c, snake)

\* "Move the snake": insert the new head, then eat and re-place the food,
\* or pop the tail.
MoveSnake_always_pop(new_head) ==
    /\ snake' = <<new_head>> \o SubSeq(snake, 1, Len(snake) - 1)
    /\ IF new_head = food
       THEN score' = score + 10 /\ place_food(snake')
       ELSE UNCHANGED <<score, food, pc>>
MoveSnake_never_pop(new_head) ==
    /\ snake' = <<new_head>> \o snake
    /\ IF new_head = food
       THEN score' = score + 10 /\ place_food(snake')
       ELSE UNCHANGED <<score, food, pc>>
MoveSnake_scores_one(new_head) ==
    IF new_head = food
    THEN /\ snake' = <<new_head>> \o snake
         /\ score' = score + 1
         /\ place_food(<<new_head>> \o snake)
    ELSE /\ snake' = SubSeq(<<new_head>> \o snake, 1, Len(snake))
         /\ UNCHANGED <<score, food, pc>>
MoveSnake(new_head) ==
    IF new_head = food
    THEN /\ snake' = <<new_head>> \o snake
         /\ score' = score + 10
         /\ place_food(<<new_head>> \o snake)
    ELSE /\ snake' = SubSeq(<<new_head>> \o snake, 1, Len(snake))
         /\ UNCHANGED <<score, food, pc>>

\* game_loop: one timer tick.
game_loop_ignores_flags ==
    /\ pc = "idle"
    /\ op' = "game_loop" /\ arg' = "NONE" /\ prev' = Snapshot
    /\ UNCHANGED <<WIDTH, HEIGHT, direction, paused>>
    /\ LET new_head == NewHead(snake[1], direction)
       IN  IF WallCollision(new_head) \/ SelfCollision(new_head)
           THEN game_over' = TRUE /\ UNCHANGED <<snake, food, score, pc>>
           ELSE MoveSnake(new_head) /\ UNCHANGED game_over
game_loop_runs_paused ==
    /\ pc = "idle"
    /\ op' = "game_loop" /\ arg' = "NONE" /\ prev' = Snapshot
    /\ UNCHANGED <<WIDTH, HEIGHT, direction, paused>>
    /\ IF game_over
       THEN UNCHANGED <<snake, food, score, game_over, pc>>
       ELSE LET new_head == NewHead(snake[1], direction)
            IN  IF WallCollision(new_head) \/ SelfCollision(new_head)
                THEN game_over' = TRUE /\ UNCHANGED <<snake, food, score, pc>>
                ELSE MoveSnake(new_head) /\ UNCHANGED game_over
game_loop ==
    /\ pc = "idle"
    /\ op' = "game_loop" /\ arg' = "NONE" /\ prev' = Snapshot
    /\ UNCHANGED <<WIDTH, HEIGHT, direction, paused>>
    /\ IF game_over \/ paused
       THEN UNCHANGED <<snake, food, score, game_over, pc>>
       ELSE LET new_head == NewHead(snake[1], direction)
            IN  IF WallCollision(new_head)
                THEN game_over' = TRUE /\ UNCHANGED <<snake, food, score, pc>>
                ELSE IF SelfCollision(new_head)
                THEN game_over' = TRUE /\ UNCHANGED <<snake, food, score, pc>>
                ELSE MoveSnake(new_head) /\ UNCHANGED game_over

\* change_direction(new_direction), as called by action_up/down/left/right.
change_direction_unguarded(new_direction) ==
    /\ pc = "idle"
    /\ op' = "change_direction" /\ arg' = new_direction /\ prev' = Snapshot
    /\ UNCHANGED <<WIDTH, HEIGHT, snake, food, score, game_over, paused, pc>>
    /\ direction' = new_direction
change_direction_checks_heading(new_direction) ==
    /\ pc = "idle"
    /\ op' = "change_direction" /\ arg' = new_direction /\ prev' = Snapshot
    /\ UNCHANGED <<WIDTH, HEIGHT, snake, food, score, game_over, paused, pc>>
    /\ IF game_over
       THEN UNCHANGED direction
       ELSE IF NewHead(snake[1], new_direction) # snake[2]
            THEN direction' = new_direction
            ELSE UNCHANGED direction
change_direction_ignored_in_pause(new_direction) ==
    /\ pc = "idle"
    /\ op' = "change_direction" /\ arg' = new_direction /\ prev' = Snapshot
    /\ UNCHANGED <<WIDTH, HEIGHT, snake, food, score, game_over, paused, pc>>
    /\ IF game_over \/ paused
       THEN UNCHANGED direction
       ELSE IF Opposites(new_direction) # direction
            THEN direction' = new_direction
            ELSE UNCHANGED direction
change_direction(new_direction) ==
    /\ pc = "idle"
    /\ op' = "change_direction" /\ arg' = new_direction /\ prev' = Snapshot
    /\ UNCHANGED <<WIDTH, HEIGHT, snake, food, score, game_over, paused, pc>>
    /\ IF game_over
       THEN UNCHANGED direction
       ELSE IF Opposites(new_direction) # direction
            THEN direction' = new_direction
            ELSE UNCHANGED direction

\* toggle_pause, as called by action_pause.
toggle_pause_unguarded ==
    /\ pc = "idle"
    /\ op' = "toggle_pause" /\ arg' = "NONE" /\ prev' = Snapshot
    /\ UNCHANGED <<WIDTH, HEIGHT, snake, food, direction, score, game_over, pc>>
    /\ paused' = ~paused
toggle_pause_only_pauses ==
    /\ pc = "idle"
    /\ op' = "toggle_pause" /\ arg' = "NONE" /\ prev' = Snapshot
    /\ UNCHANGED <<WIDTH, HEIGHT, snake, food, direction, score, game_over, pc>>
    /\ IF ~game_over
       THEN paused' = TRUE
       ELSE UNCHANGED paused
toggle_pause ==
    /\ pc = "idle"
    /\ op' = "toggle_pause" /\ arg' = "NONE" /\ prev' = Snapshot
    /\ UNCHANGED <<WIDTH, HEIGHT, snake, food, direction, score, game_over, pc>>
    /\ IF ~game_over
       THEN paused' = ~paused
       ELSE UNCHANGED paused

Next ==
    \/ game_loop
    \/ \E new_direction \in Direction : change_direction(new_direction)
    \/ toggle_pause
    \/ reset_game

Spec == Init /\ [][Next]_vars

\* The interval timer of on_mount keeps calling game_loop for as long as the
\* event loop can run it.
TimerSpec == Spec /\ WF_vars(game_loop)

(***************************************************************************)
(* The reference game: the 30 x 20 grid of the source, a fresh game whose   *)
(* first food was drawn at (20, 10), and nothing but timer ticks.           *)
(***************************************************************************)
REF_WIDTH == 30
REF_HEIGHT == 20

\* __init__ on the reference grid with place_food drawing (20, 10).
ScenarioInit ==
    /\ WIDTH = REF_WIDTH
    /\ HEIGHT = REF_HEIGHT
    /\ snake = StartSnake(WIDTH, HEIGHT)
    /\ direction = "RIGHT"
    /\ score = 0
    /\ game_over = FALSE
    /\ paused = FALSE
    /\ food = <<20, 10>>
    /\ food \in FreeCells(snake)
    /\ pc = "idle"
    /\ op = "__init__"
    /\ arg = "NONE"
    /\ prev = [snake |-> snake, food |-> food, direction |-> direction,
               score |-> score, game_over |-> game_over, paused |-> paused]

\* Only the timer fires.
ScenarioNext == game_loop

ScenarioSpec == ScenarioInit /\ [][ScenarioNext]_vars

(***************************************************************************)
(* The handlers as the event loop runs them, one statement group at a      *)
(* time: the timer callback and the SnakeApp actions are plain functions   *)
(* without a suspension point, posted to one event loop by set_interval    *)
(* and the key bindings.  pc is the position of the callback that is       *)
(* running: "gl_inserted" after game_loop has inserted the new head,       *)
(* "render" before a call of update_display, "idle" when none runs.        *)
(* Every callback and update_display records in prev the state it reads.   *)
(***************************************************************************)
\* The event loop starts a callback only when no callback is running.
Dispatchable_preemptive == pc # "place_food"
Dispatchable == pc = "idle"

\* game_loop up to and including the insert of the new head.
game_loop_enter ==
    /\ Dispatchable
    /\ op' = "game_loop" /\ arg' = "NONE" /\ prev' = Snapshot
    /\ UNCHANGED <<WIDTH, HEIGHT, direction, paused, food, score>>
    /\ IF game_over \/ paused
       THEN UNCHANGED <<snake, game_over, pc>>
       ELSE LET new_head == NewHead(snake[1], direction)
            IN  IF WallCollision(new_head) \/ SelfCollision(new_head)
                THEN game_over' = TRUE /\ pc' = "render" /\ UNCHANGED snake
                ELSE /\ snake' = <<new_head>> \o snake
                     /\ pc' = "gl_inserted"
                     /\ UNCHANGED game_over

\* game_loop after the insert: eat and place the food, or pop the tail.
game_loop_finish ==
    /\ pc = "gl_inserted"
    /\ UNCHANGED <<WIDTH, HEIGHT, direction, paused, game_over, op, arg, prev>>
    /\ IF snake[1] = food
       THEN /\ score' = score + 10
            /\ UNCHANGED snake
            /\ IF FreeCells(snake) # {}
               THEN food' \in FreeCells(snake) /\ pc' = "render"
               ELSE food' = food /\ pc' = "place_food"
       ELSE /\ snake' = SubSeq(snake, 1, Len(snake) - 1)
            /\ pc' = "render"
            /\ UNCHANGED <<score, food>>

\* update_display: reads the game state and draws it; writes none of it.
update_display ==
    /\ pc = "render"
    /\ op' = "update_display" /\ arg' = "NONE" /\ prev' = Snapshot
    /\ pc' = "idle"
    /\ UNCHANGED <<WIDTH, HEIGHT, snake, food, direction, score, game_over, paused>>

\* action_up / action_down / action_left / action_right.
action_direction(new_direction) ==
    /\ Dispatchable
    /\ op' = "change_direction" /\ arg' = new_direction /\ prev' = Snapshot
    /\ UNCHANGED <<WIDTH, HEIGHT, snake, food, score, game_over, paused, pc>>
    /\ IF game_over
       THEN UNCHANGED direction
       ELSE IF Opposites(new_direction) # direction
            THEN direction' = new_direction
            ELSE UNCHANGED direction

\* action_pause: toggle_pause, which ends with update_display.
action_pause ==
    /\ Dispatchable
    /\ op' = "toggle_pause" /\ arg' = "NONE" /\ prev' = Snapshot
    /\ UNCHANGED <<WIDTH, HEIGHT, snake, food, direction, score, game_over>>
    /\ IF ~game_over
       THEN paused' = ~paused /\ pc' = "render"
       ELSE UNCHANGED <<paused, pc>>

\* action_restart: reset_game, then update_display.
action_restart ==
    /\ Dispatchable
    /\ op' = "reset_game" /\ arg' = "NONE" /\ prev' = Snapshot
    /\ snake' = StartSnake(WIDTH, HEIGHT)
    /\ direction' = "RIGHT"
    /\ score' = 0
    /\ game_over' = FALSE
    /\ paused' = FALSE
    /\ IF FreeCells(StartSnake(WIDTH, HEIGHT)) # {}
       THEN food' \in FreeCells(StartSnake(WIDTH, HEIGHT)) /\ pc' = "render"
       ELSE food' = food /\ pc' = "place_food"
    /\ UNCHANGED <<WIDTH, HEIGHT>>

StepwiseNext ==
    \/ game_loop_enter
    \/ game_loop_finish
    \/ update_display
    \/ \E new_direction \in Direction : action_direction(new_direction)
    \/ action_pause
    \/ action_restart

StepwiseSpec == Init /\ [][StepwiseNext]_vars

(***************************************************************************)
(* Vocabulary of the properties.  After a handler has run, prev is the     *)
(* state it was called in and the unprimed variables are its result.       *)
(***************************************************************************)
\* The last handler was a tick that found the game neither paused nor over.
ActiveStep == op = "game_loop" /\ ~prev.paused /\ ~prev.game_over

\* The cell one unit ahead of the head in the state the handler started from.
Ahead == NewHead(prev.snake[1], prev.direction)

\* s without its last element.
Front(s) == SubSeq(s, 1, Len(s) - 1)

\* C1: the snake never contains the same cell twice.
NoSelfOverlap ==
    \A i, j \in DOMAIN snake : i # j => snake[i] # snake[j]

\* C1 witness: a tick has just refused to move the head onto the body.
NoSelfOverlapWitness ==
    /\ ActiveStep /\ game_over
    /\ Ahead \in Cells /\ InSnake(Ahead, snake)
    /\ Len(snake) >= 5

\* C2: after every completed handler the food is a grid cell off the snake.
FoodOffSnake ==
    pc = "idle" => food \in Cells /\ ~InSnake(food, snake)

\* C2 witness: a tick has eaten the food and placed a new one.
FoodOffSnakeWitness ==
    /\ ActiveStep /\ pc = "idle"
    /\ Ahead = prev.food /\ snake[1] = prev.food
    /\ food # prev.food

\* C3: whenever place_food is called (by reset_game or by a food-eating
\* tick) the snake leaves a cell free, so the sampling loop terminates.
PlaceFoodTerminates ==
    (op \in {"__init__", "reset_game"} \/ (ActiveStep /\ score = prev.score + 10))
        => FreeCells(snake) # {} /\ pc = "idle"

\* C4: a tick whose cell ahead is the food grows the snake by that cell and
\* adds 10 to the score; the old snake is kept whole behind the new head.
Growth ==
    (ActiveStep /\ Ahead = prev.food) =>
        /\ Len(snake) = Len(prev.snake) + 1
        /\ score = prev.score + 10
        /\ snake[1] = prev.food
        /\ Tail(snake) = prev.snake

\* C4 witness: a tick has eaten the food.
GrowthWitness ==
    ActiveStep /\ Ahead = prev.food /\ Len(snake) = 4 /\ score = 10

\* C5: a tick whose cell ahead is in the grid, off the snake and not the food
\* keeps length, score and food; the snake becomes the new head followed by
\* the old snake without its last cell.
Conservation ==
    (/\ ActiveStep
     /\ Ahead \in Cells
     /\ ~InSnake(Ahead, prev.snake)
     /\ Ahead # prev.food) =>
        /\ Len(snake) = Len(prev.snake)
        /\ score = prev.score
        /\ food = prev.food
        /\ snake = <<Ahead>> \o Front(prev.snake)

\* C5 witness: a grown snake has made a plain move.
ConservationWitness ==
    /\ ActiveStep /\ Ahead \in Cells /\ ~InSnake(Ahead, prev.snake)
    /\ Ahead # prev.food
    /\ Len(prev.snake) >= 4 /\ snake[1] = Ahead

\* C6: a tick whose cell ahead is outside the grid ends the game and changes
\* nothing else.
WallEndsGame ==
    (ActiveStep /\ Ahead \notin Cells) =>
        /\ game_over
        /\ snake = prev.snake /\ food = prev.food /\ score = prev.score
        /\ direction = prev.direction /\ paused = prev.paused

\* C6 witness: the head was at x = 0 moving left, and the game is over.
WallEndsGameWitness ==
    /\ ActiveStep /\ prev.snake[1][1] = 0 /\ prev.direction = "LEFT"
    /\ game_over

\* C7: a tick whose cell ahead is any cell of the snake as it was before the
\* move, its last cell included, ends the game; snake, food and score stay.
SelfCollisionEndsGame ==
    (ActiveStep /\ Ahead \in Cells /\ InSnake(Ahead, prev.snake)) =>
        /\ game_over
        /\ snake = prev.snake /\ food = prev.food /\ score = prev.score

\* C7 witness: the cell ahead was the snake's last cell, and the game is over.
SelfCollisionEndsGameWitness ==
    /\ ActiveStep /\ Ahead = prev.snake[Len(prev.snake)]
    /\ game_over

\* C8: while the game is not over, change_direction(d) with d the opposite of
\* the current direction changes nothing, and with any other d it sets the
\* direction to d and nothing else; the direction never becomes its opposite.
ReversalGuard ==
    (op = "change_direction" /\ ~prev.game_over) =>
        /\ IF arg = Opposites(prev.direction)
           THEN Snapshot = prev
           ELSE Snapshot = [prev EXCEPT !.direction = arg]
        /\ direction # Opposites(prev.direction)

\* C8 witness: a reversal was requested during a pause and refused.
ReversalGuardWitness ==
    /\ op = "change_direction" /\ ~prev.game_over /\ prev.paused
    /\ arg = Opposites(prev.direction) /\ direction = prev.direction

\* C9: once the game is over, every handler but reset_game leaves the whole
\* state as it was, so game_over becomes false again only by reset_game.
GameOverTerminal ==
    (prev.game_over /\ op # "reset_game") => Snapshot = prev

\* C9 witness: toggle_pause was called on a finished game.
GameOverTerminalWitness ==
    prev.game_over /\ op = "toggle_pause" /\ game_over /\ ~paused

\* C10: a tick during a pause leaves the whole state as it was.
PausedStepIdentity ==
    (op = "game_loop" /\ prev.paused) => Snapshot = prev

\* C10 witness: a tick ran during a pause although the cell ahead was free.
PausedStepIdentityWitness ==
    /\ op = "game_loop" /\ prev.paused /\ ~prev.game_over
    /\ Ahead \in Cells /\ ~InSnake(Ahead, prev.snake)
    /\ snake = prev.snake

\* C11: reset_game, called in any state, gives the start state: not over, not
\* paused, score 0, direction RIGHT, the three-cell start snake in the middle
\* row, and a food cell off the snake.
ResetRestores ==
    op = "reset_game" =>
        /\ ~game_over /\ ~paused /\ score = 0 /\ direction = "RIGHT"
        /\ Len(snake) = 3
        /\ snake = <<<<WIDTH \div 2, HEIGHT \div 2>>,
                     <<(WIDTH \div 2) - 1, HEIGHT \div 2>>,
                     <<(WIDTH \div 2) - 2, HEIGHT \div 2>>>>
        /\ food \in Cells /\ ~InSnake(food, snake)
        /\ pc = "idle"

\* C11 witness: reset_game was called on a paused game with a grown snake
\* heading elsewhere than RIGHT.
ResetRestoresWitness ==
    /\ op = "reset_game" /\ prev.paused /\ prev.score > 0
    /\ prev.direction # "RIGHT" /\ ~paused

\* C13 (state part): a tick keeps direction and paused; change_direction
\* changes at most direction; toggle_pause changes at most paused, and flips
\* it unless the game is over; food changes only by reset_game or by a tick
\* that eats it.
FrameState ==
    /\ op = "game_loop" => direction = prev.direction /\ paused = prev.paused
    /\ op = "change_direction" => Snapshot = [prev EXCEPT !.direction = direction]
    /\ op = "toggle_pause" =>
          /\ Snapshot = [prev EXCEPT !.paused = paused]
          /\ paused = (IF prev.game_over THEN prev.paused ELSE ~prev.paused)
    /\ food # prev.food => (op = "reset_game" \/ (ActiveStep /\ Ahead = prev.food))

\* C13: every handler changes only its own part of the state, and two
\* toggle_pause calls in a row give back the state before the first.
FrameEffects ==
    /\ []FrameState
    /\ [][(op = "toggle_pause" /\ op' = "toggle_pause") => Snapshot' = prev]_vars

\* C13 witness: toggle_pause has ended a pause and changed nothing else.
FrameEffectsWitness ==
    /\ op = "toggle_pause" /\ prev.paused /\ ~paused
    /\ snake = prev.snake /\ Len(snake) >= 4

\* C17: the game is never both paused and over.
NeverPausedAndOver == ~(paused /\ game_over)

\* C17 witness: the game of a grown snake has ended by a collision, unpaused.
NeverPausedAndOverWitness ==
    ActiveStep /\ game_over /\ ~paused /\ Len(snake) >= 4

\* C18: score = 10 * (len(snake) - 3); so the score is a non-negative multiple
\* of 10, the snake has at least 3 cells, and without a reset neither score
\* nor length decreases.
ScoreTracksLength ==
    /\ score = 10 * (Len(snake) - 3)
    /\ Len(snake) >= 3 /\ score >= 0 /\ score % 10 = 0
    /\ op # "reset_game" =>
          score >= prev.score /\ Len(snake) >= Len(prev.snake)

\* C18 witness: two foods have been eaten.
ScoreTracksLengthWitness ==
    ActiveStep /\ score = 20 /\ prev.score = 10 /\ Len(snake) = 5

\* Two cells differ by exactly one unit in exactly one coordinate.
Adjacent(a, b) ==
    \/ a[1] = b[1] /\ (a[2] - b[2] = 1 \/ b[2] - a[2] = 1)
    \/ a[2] = b[2] /\ (a[1] - b[1] = 1 \/ b[1] - a[1] = 1)

\* C19: every snake cell is in the grid and consecutive cells are adjacent.
ConnectedInGrid ==
    /\ \A i \in DOMAIN snake :
          /\ 0 <= snake[i][1] /\ snake[i][1] < WIDTH
          /\ 0 <= snake[i][2] /\ snake[i][2] < HEIGHT
    /\ \A i \in 1 .. Len(snake) - 1 : Adjacent(snake[i], snake[i + 1])

\* C19 witness: a grown snake lies bent along the right and top walls.
ConnectedInGridWitness ==
    /\ Len(snake) >= 5
    /\ \E i, j \in DOMAIN snake :
          /\ snake[i][1] = WIDTH - 1 /\ snake[j][2] = 0
          /\ snake[i][2] # snake[j][2] /\ snake[i][1] # snake[j][1]

\* The direction the snake s last moved in: from its second cell to its head.
Heading(s) == CHOOSE d \in Direction : s[1] = NewHead(s[2], d)

\* Two directions at a right angle.
Perpendicular(a, b) == a # b /\ a # Opposites(b)

\* C14 (state part): a perpendicular change_direction is accepted; so is a
\* following one that reverses the snake's heading; and a tick that finds the
\* direction reversed aims at the snake's second cell and ends the game by
\* self collision without touching the snake.
ReversalTrapState ==
    /\ (op = "change_direction" /\ ~prev.game_over
            /\ Perpendicular(arg, prev.direction)) => direction = arg
    /\ (op = "change_direction" /\ ~prev.game_over
            /\ Perpendicular(prev.direction, Heading(prev.snake))
            /\ arg = Opposites(Heading(prev.snake))) => direction = arg
    /\ (ActiveStep /\ prev.direction = Opposites(Heading(prev.snake))) =>
          /\ Ahead = prev.snake[2]
          /\ Ahead \in Cells
          /\ game_over /\ snake = prev.snake

\* C14: two change_direction calls with no tick between them, the first
\* perpendicular to the heading and the second opposite to it, are both
\* accepted, and the next unpaused tick ends the game on the second cell.
ReversalTrap ==
    /\ []ReversalTrapState
    /\ [][(/\ op = "change_direction" /\ op' = "change_direction"
           /\ ~prev.game_over
           /\ prev.direction = Heading(snake)
           /\ Perpendicular(arg, prev.direction)
           /\ arg' = Opposites(Heading(snake)))
          => (direction = arg /\ direction' = arg')]_vars

\* C14 witness: a tick has ended the game on the snake's own second cell.
ReversalTrapWitness ==
    /\ ActiveStep /\ prev.direction = Opposites(Heading(prev.snake))
    /\ op = "game_loop" /\ game_over /\ snake = prev.snake

\* C15 (state part): during a pause change_direction works under the same
\* guard as otherwise, and no handler but reset_game touches the snake.
PauseQueuesState ==
    /\ (op = "change_direction" /\ prev.paused /\ ~prev.game_over) =>
          direction = (IF arg = Opposites(prev.direction)
                       THEN prev.direction ELSE arg)
    /\ (prev.paused /\ op # "reset_game") => snake = prev.snake

\* A tick is about to run right after toggle_pause has ended a pause.
FirstStepAfterPause ==
    /\ op = "toggle_pause" /\ prev.paused /\ ~paused /\ ~game_over
    /\ op' = "game_loop"

\* C15 as stated: the first tick after the pause always moves the head one
\* unit in the direction held at the end of the pause.
PauseQueuesDirectionAlwaysMoves ==
    /\ []PauseQueuesState
    /\ [][FirstStepAfterPause => snake'[1] = NewHead(snake[1], direction)]_vars

\* C15 as amended: the first tick after the pause moves the head one unit in
\* the direction held at the end of the pause when that cell is in the grid
\* and off the snake, and otherwise ends the game and leaves the snake.
PauseQueuesDirection ==
    /\ []PauseQueuesState
    /\ [][FirstStepAfterPause =>
            IF /\ NewHead(snake[1], direction) \in Cells
               /\ ~InSnake(NewHead(snake[1], direction), snake)
            THEN snake'[1] = NewHead(snake[1], direction) /\ ~game_over'
            ELSE game_over' /\ snake' = snake]_vars

\* C15 witness: a pause has just ended with the direction turned away from
\* the snake's heading and the cell ahead free.
PauseQueuesDirectionWitness ==
    /\ op = "toggle_pause" /\ prev.paused /\ ~paused /\ ~game_over
    /\ Perpendicular(direction, Heading(snake))
    /\ NewHead(snake[1], direction) \in Cells
    /\ ~InSnake(NewHead(snake[1], direction), snake)

\* The state the reference game is expected to be in after k ticks, k < 5.
ScenarioState(k) ==
    [snake |-> <<<<15 + k, 10>>, <<14 + k, 10>>, <<13 + k, 10>>>>,
     food |-> <<20, 10>>, direction |-> "RIGHT",
     score |-> 0, game_over |-> FALSE, paused |-> FALSE]

\* C12: the reference game starts with snake [(15,10),(14,10),(13,10)]; each
\* of its first 4 ticks moves the snake one cell right with score 0 and
\* length 3; the 5th tick puts the head on (20,10) with score 10, length 4
\* and the game not over.  Until then the game is in no other state.
FiveTicksToFood ==
    /\ op = "__init__" => Snapshot = ScenarioState(0)
    /\ \A k \in 0 .. 3 :
          (op = "game_loop" /\ prev = ScenarioState(k)) =>
              Snapshot = ScenarioState(k + 1)
    /\ (op = "game_loop" /\ prev = ScenarioState(4)) =>
          /\ snake[1] = <<20, 10>>
          /\ score = 10
          /\ Len(snake) = 4
          /\ ~game_over
    /\ score = 0 => \E k \in 0 .. 4 : Snapshot = ScenarioState(k)

\* C12 witness: the 5th tick has run and the head is on (20,10).
FiveTicksToFoodWitness ==
    /\ op = "game_loop" /\ prev = ScenarioState(4)
    /\ snake[1] = <<20, 10>> /\ score = 10 /\ Len(snake) = 4

\* A game state caught in the middle of game_loop's mutation: the food lies
\* on the snake, or the snake is longer than its score accounts for.
Torn(st) ==
    \/ InSnake(st.food, st.snake)
    \/ Len(st.snake) # 3 + (st.score \div 10)

\* C16: the state a callback starts from, and the state update_display draws,
\* is never torn; and while game_loop stands between its insert and its pop
\* or food placement, the next step is game_loop's own.
NoTornObservation ==
    /\ ~Torn(prev)
    /\ pc = "idle" => ~Torn(Snapshot)
    /\ pc = "gl_inserted" => op = "game_loop"

\* C16 witness: game_loop stands after its insert with a torn state in
\* memory (the snake one cell too long) that no one has read.
NoTornObservationWitness ==
    /\ pc = "gl_inserted" /\ Torn(Snapshot)
    /\ snake[1] # food /\ Len(snake) = Len(prev.snake) + 1
    /\ ~Torn(prev)

\* C20: if from some point on every step is a timer tick and the game is not
\* paused, then the game ends: game_over becomes true and stays true.
TicksEndGame ==
    (<>[][op' = "game_loop"]_vars /\ <>[](~paused)) => <>[]game_over

====
